---- MODULE Spec2Model ----
(***************************************************************************)
(* Model of classify_cloudinary.py: paginated listing of the two asset     *)
(* folders, the per-asset processing loop, the two persistence modes of    *)
(* tags.json, and the pure helpers filter_bw_tags and get_clip_tags.       *)
(***************************************************************************)
EXTENDS Integers, Sequences, FiniteSets, TLC

(* ------------------------------------------------------------------ *)
(* Bounds of the model                                                  *)
(* ------------------------------------------------------------------ *)
MaxPages == 2        \* pages the backend holds per folder, at most
MaxPageLen == 2      \* resources in one page, at most
MaxAssets == 2       \* resources in the whole backend, at most
MaxRequests == 6     \* listing requests one run may issue (caps a runaway loop)
MaxPrior == 2        \* entries in the prior tags.json, at most

Ids == {"A", "B"}
None == "None"
Folders == <<"portfolio", "rugby">>
FolderSet == {"portfolio", "rugby"}
CursorTok == <<"c1", "c2", "c3", "c4">>

PAGE_SIZE == 500

(* ------------------------------------------------------------------ *)
(* Sequence helpers                                                     *)
(* ------------------------------------------------------------------ *)
Range(s) == {s[i] : i \in 1..Len(s)}

SeqsUpTo(S, n) == UNION {[1..k -> S] : k \in 0..n}

RECURSIVE Flatten(_)
Flatten(ss) == IF ss = <<>> THEN <<>> ELSE Head(ss) \o Flatten(Tail(ss))

(* ------------------------------------------------------------------ *)
(* Python dict: insertion-ordered sequence of <<key, value>> pairs      *)
(* ------------------------------------------------------------------ *)
DictKeys(d) == {d[i][1] : i \in 1..Len(d)}

DictHas(d, k) == \E i \in 1..Len(d) : d[i][1] = k

DictGet(d, k) == d[CHOOSE i \in 1..Len(d) : d[i][1] = k][2]

\* d[k] = v : an existing key keeps its position and takes the new value
DictSet(d, k, v) ==
    IF DictHas(d, k)
    THEN [i \in 1..Len(d) |-> IF d[i][1] = k THEN <<k, v>> ELSE d[i]]
    ELSE Append(d, <<k, v>>)

RECURSIVE DictUpdate(_, _)
DictUpdate(d, e) ==
    IF e = <<>> THEN d ELSE DictUpdate(DictSet(d, Head(e)[1], Head(e)[2]), Tail(e))

\* {**b, **a}: the operands of the merge swapped
DictUnpackSwapped(a, b) == DictUpdate(DictUpdate(<<>>, b), a)

\* {**a, **b}
DictUnpack(a, b) == DictUpdate(DictUpdate(<<>>, a), b)

IsDict(d) == \A i, j \in 1..Len(d) : d[i][1] = d[j][1] => i = j

(* ------------------------------------------------------------------ *)
(* tags.json on disk                                                    *)
(* ------------------------------------------------------------------ *)
\* exists: os.path.exists; entries: the pairs written so far;
\* closed: the closing brace of the JSON object has been written
Absent == [exists |-> FALSE, entries |-> <<>>, closed |-> FALSE]
FileOf(d) == [exists |-> TRUE, entries |-> d, closed |-> TRUE]
Truncated == [exists |-> TRUE, entries |-> <<>>, closed |-> FALSE]

Parseable(f) == f.exists /\ f.closed

\* the mapping a reader of the store sees
StoreMap(f) == IF Parseable(f) THEN f.entries ELSE <<>>

(* ------------------------------------------------------------------ *)
(* Listing backend (cloudinary.api.resources_by_asset_folder)           *)
(* ------------------------------------------------------------------ *)
UrlOf(id) == <<"https", id>>

Resource(id) == [public_id |-> id, secure_url |-> UrlOf(id), created_at |-> "t1"]

\* index of the page a cursor designates; None designates the first page
PageIndex(cursor) ==
    IF cursor = None THEN 1
    ELSE 1 + (CHOOSE i \in 1..Len(CursorTok) : CursorTok[i] = cursor)

\* the response to one request: "error" stands for the raised exception
Respond(be, folder, cursor) ==
    LET p == PageIndex(cursor)
        fb == be[folder]
    IN  IF fb.errAt = p \/ p > Len(fb.pages)
        THEN [ok |-> FALSE, resources |-> <<>>, next_cursor |-> None]
        ELSE [ok |-> TRUE,
              resources |-> [i \in 1..Len(fb.pages[p]) |-> Resource(fb.pages[p][i])],
              next_cursor |-> IF p < Len(fb.pages) THEN CursorTok[p] ELSE None]

FolderBackends ==
    {[pages |-> ps, errAt |-> e] :
        ps \in (SeqsUpTo(SeqsUpTo(Ids, MaxPageLen), MaxPages) \ {<<>>}),
        e \in 0..MaxPages}

AssetCount(be) ==
    Len(Flatten(be["portfolio"].pages)) + Len(Flatten(be["rugby"].pages))

\* errAt = 0: no request fails; otherwise the request for the last page
\* raises, and that page, never served, is kept empty. A public_id names
\* one resource, so a folder lists it once.
WellFormed(fb) ==
    /\ fb.errAt > 0 => (fb.errAt = Len(fb.pages) /\ fb.pages[fb.errAt] = <<>>)
    /\ LET all == Flatten(fb.pages)
       IN  \A i, j \in 1..Len(all) : all[i] = all[j] => i = j

Backends ==
    {be \in [FolderSet -> {fb \in FolderBackends : WellFormed(fb)}] :
        AssetCount(be) <= MaxAssets}


\* prior contents of tags.json: absent, left truncated by an earlier
\* interrupted write, or a complete mapping
PriorValue(id) == [url |-> UrlOf(id), folder |-> "portfolio", created_at |-> "t0"]

\* "A": an asset the backend still lists; "Z": an asset of an earlier run
\* that it no longer lists
PriorIds == {"A", "Z"}

PriorDicts ==
    {[i \in 1..Len(ks) |-> <<ks[i], PriorValue(ks[i])>>] :
        ks \in {s \in SeqsUpTo(PriorIds, MaxPrior) : \A i, j \in 1..Len(s) : s[i] = s[j] => i = j}}

PriorStores == {Absent, Truncated} \cup {FileOf(d) : d \in PriorDicts}

(* ------------------------------------------------------------------ *)
(* State                                                                *)
(* ------------------------------------------------------------------ *)
VARIABLES
    mode,           \* "full", or the folder named by sys.argv[1]
    pc,             \* position of the script
    backend,        \* what the listing API holds and where it fails
    failing,        \* ids of the assets whose download fails
    prior,          \* tags.json as the run found it
    store,          \* tags.json
    existing_tags,  \* the loaded mapping (single-folder branch)
    fi,             \* index of the folder being listed
    next_cursor,
    all_images,     \* resources accumulated by the listing, tagged
    log,            \* the requests issued and their responses
    images,         \* the listing's return value
    idx,            \* position of the processing loop
    results,
    final_results,
    wpos,           \* entries of the payload written so far
    \* one call of filter_bw_tags
    color_tags, saturation, filtered_tags, fpc,
    \* one call of get_clip_tags
    taxonomy, similarity, clip_fails, clip_tags, cpc,
    \* timestamp resolution of one asset
    served, created_at, image, photo_date, dpc,
    \* the tagging of one asset
    failing_taxonomies, scores, avg_saturation, content_tags, style_tags,
    lighting_tags, color_tags_raw, entry, apc,
    \* one call of get_color_palette
    kmeans_labels, kmeans_fails, palette, ppc,
    \* the comparison of two folder runs with one full run
    phase,          \* which invocation of the script is running
    snapshot        \* tags.json as the two folder runs left it

runVars == <<mode, pc, backend, failing, prior, store, existing_tags, fi,
             next_cursor, all_images, log, images, idx, results,
             final_results, wpos>>

filterVars == <<color_tags, saturation, filtered_tags, fpc>>

clipVars == <<taxonomy, similarity, clip_fails, clip_tags, cpc>>

dateVars == <<served, created_at, image, photo_date, dpc>>

assetVars == <<failing_taxonomies, scores, avg_saturation, content_tags,
               style_tags, lighting_tags, color_tags_raw, entry, apc>>

paletteVars == <<kmeans_labels, kmeans_fails, palette, ppc>>

seqVars == <<phase, snapshot>>

moreVars == <<dateVars, assetVars, paletteVars, seqVars>>

fnVars == <<filterVars, clipVars, moreVars>>

vars == <<runVars, fnVars>>

\* no call of filter_bw_tags under way
FilterIdle ==
    /\ color_tags = <<>> /\ saturation = 0 /\ filtered_tags = <<>> /\ fpc = "idle"

\* no call of get_clip_tags under way
ClipIdle ==
    /\ taxonomy = "content" /\ similarity = <<>> /\ clip_fails = FALSE
    /\ clip_tags = <<>> /\ cpc = "idle"

\* the absent value (Python None) where a date string is expected
NoDate == [layout |-> "none", fields |-> <<>>]

\* no PIL image at hand
NoImage == [mode |-> "none", has_getexif |-> FALSE, has_exif |-> FALSE,
            DateTimeOriginal |-> NoDate, DateTime |-> NoDate]

\* no timestamp resolution under way
DateIdle ==
    /\ served = NoImage /\ created_at = NoDate /\ image = NoImage
    /\ photo_date = NoDate /\ dpc = "idle"

NoEntry == [content |-> <<>>, style |-> <<>>, lighting |-> <<>>,
            colors |-> <<>>, all_tags |-> <<>>]

\* no asset being tagged
AssetIdle ==
    /\ failing_taxonomies = {} /\ scores = <<>> /\ avg_saturation = 0
    /\ content_tags = <<>> /\ style_tags = <<>> /\ lighting_tags = <<>>
    /\ color_tags_raw = <<>> /\ entry = NoEntry /\ apc = "idle"

\* no call of get_color_palette under way
PaletteIdle ==
    /\ kmeans_labels = <<>> /\ kmeans_fails = FALSE /\ palette = <<>> /\ ppc = "idle"

\* a single invocation of the script
SeqIdle == phase = "single" /\ snapshot = Absent

MoreIdle == DateIdle /\ AssetIdle /\ PaletteIdle /\ SeqIdle

\* the script not started
RunIdle ==
    /\ mode = "full" /\ backend = <<>> /\ failing = {} /\ store = Absent
    /\ prior = Absent /\ pc = "idle" /\ existing_tags = <<>> /\ fi = 1
    /\ next_cursor = None /\ all_images = <<>> /\ log = <<>> /\ images = <<>>
    /\ idx = 1 /\ results = <<>> /\ final_results = <<>> /\ wpos = 0

RunInit(modes, backends, failsets, priors) ==
    /\ mode \in modes
    /\ backend \in backends
    /\ failing \in failsets
    /\ store \in priors
    /\ prior = store
    /\ pc = "start"
    /\ existing_tags = <<>>
    /\ fi = 1
    /\ next_cursor = None
    /\ all_images = <<>>
    /\ log = <<>>
    /\ images = <<>>
    /\ idx = 1
    /\ results = <<>>
    /\ final_results = <<>>
    /\ wpos = 0

Modes == {"full", "portfolio", "rugby"}

Init ==
    /\ RunInit(Modes, Backends, SUBSET Ids, PriorStores)
    /\ FilterIdle /\ ClipIdle /\ MoreIdle

(* ------------------------------------------------------------------ *)
(* Entry point                                                          *)
(* ------------------------------------------------------------------ *)
\* if len(sys.argv) > 1 ... else process_all_images()
Start ==
    /\ pc = "start"
    /\ pc' = IF mode = "full" THEN "fetch" ELSE "load"
    /\ UNCHANGED <<mode, backend, failing, prior, store, existing_tags, fi,
                   next_cursor, all_images, log, images, idx, results,
                   final_results, wpos>>
    /\ UNCHANGED fnVars

\* json.load raises on a file that is not a complete JSON document
JsonLoad(f) == IF Parseable(f) THEN [ok |-> TRUE, value |-> f.entries]
               ELSE [ok |-> FALSE, value |-> <<>>]

\* existing_tags = {}; if os.path.exists(...): existing_tags = json.load(f)
LoadExisting ==
    /\ pc = "load"
    /\ IF ~store.exists
       THEN existing_tags' = <<>> /\ pc' = "fetch"
       ELSE IF JsonLoad(store).ok
            THEN existing_tags' = JsonLoad(store).value /\ pc' = "fetch"
            ELSE existing_tags' = existing_tags /\ pc' = "crashed_load"
    /\ UNCHANGED <<mode, backend, failing, prior, store, fi, next_cursor,
                   all_images, log, images, idx, results, final_results, wpos>>
    /\ UNCHANGED fnVars

(* ------------------------------------------------------------------ *)
(* Listing                                                              *)
(* ------------------------------------------------------------------ *)
\* img["folder"] = folder
TagFolder(rs, folder) ==
    [i \in 1..Len(rs) |->
        [public_id |-> rs[i].public_id, secure_url |-> rs[i].secure_url,
         created_at |-> rs[i].created_at, folder |-> folder]]

\* the list comprehension both listing functions return
Project(rs) ==
    [i \in 1..Len(rs) |->
        [public_id |-> rs[i].public_id, url |-> rs[i].secure_url,
         folder |-> rs[i].folder, created_at |-> rs[i].created_at]]

\* Python truthiness of result.get("next_cursor")
Falsy(c) == c = None \/ c = ""

LogEntry(folder, cursor, resp) ==
    [folder |-> folder, max_results |-> PAGE_SIZE, cursor |-> cursor,
     ok |-> resp.ok, resources |-> resp.resources, next |-> resp.next_cursor]

\* fetch_all_images giving up the whole listing on the first request error
FetchAllPageAbort ==
    /\ pc = "fetch" /\ mode = "full"
    /\ Len(log) < MaxRequests
    /\ LET folder == Folders[fi]
           resp == Respond(backend, folder, next_cursor)
           acc == IF resp.ok THEN all_images \o TagFolder(resp.resources, folder)
                  ELSE all_images
           brk == ~resp.ok \/ Falsy(resp.next_cursor)
       IN  /\ log' = Append(log, LogEntry(folder, next_cursor, resp))
           /\ all_images' = acc
           /\ IF ~brk
              THEN /\ next_cursor' = resp.next_cursor
                   /\ UNCHANGED <<fi, images, pc>>
              ELSE IF fi < Len(Folders) /\ resp.ok
                   THEN /\ fi' = fi + 1
                        /\ next_cursor' = None
                        /\ UNCHANGED <<images, pc>>
                   ELSE /\ next_cursor' = IF resp.ok THEN resp.next_cursor ELSE next_cursor
                        /\ images' = Project(acc)
                        /\ pc' = "listed"
                        /\ fi' = fi
    /\ UNCHANGED <<mode, backend, failing, prior, store, existing_tags, idx,
                   results, final_results, wpos>>
    /\ UNCHANGED fnVars

\* one iteration of the while loop of fetch_all_images; leaving the loop
\* of the last folder returns the projected list
FetchAllPage ==
    /\ pc = "fetch" /\ mode = "full"
    /\ Len(log) < MaxRequests
    /\ LET folder == Folders[fi]
           resp == Respond(backend, folder, next_cursor)
           acc == IF resp.ok THEN all_images \o TagFolder(resp.resources, folder)
                  ELSE all_images
           brk == ~resp.ok \/ Falsy(resp.next_cursor)
       IN  /\ log' = Append(log, LogEntry(folder, next_cursor, resp))
           /\ all_images' = acc
           /\ IF ~brk
              THEN /\ next_cursor' = resp.next_cursor
                   /\ UNCHANGED <<fi, images, pc>>
              ELSE IF fi < Len(Folders)
                   THEN /\ fi' = fi + 1
                        /\ next_cursor' = None
                        /\ UNCHANGED <<images, pc>>
                   ELSE /\ next_cursor' = IF resp.ok THEN resp.next_cursor ELSE next_cursor
                        /\ images' = Project(acc)
                        /\ pc' = "listed"
                        /\ fi' = fi
    /\ UNCHANGED <<mode, backend, failing, prior, store, existing_tags, idx,
                   results, final_results, wpos>>
    /\ UNCHANGED fnVars

\* fetch_images_from_folder never carrying the returned cursor forward
FetchFolderPageStale ==
    /\ pc = "fetch" /\ mode # "full"
    /\ Len(log) < MaxRequests
    /\ LET folder == mode
           resp == Respond(backend, folder, next_cursor)
           acc == IF resp.ok THEN all_images \o TagFolder(resp.resources, folder)
                  ELSE all_images
           brk == ~resp.ok \/ Falsy(resp.next_cursor)
       IN  /\ log' = Append(log, LogEntry(folder, next_cursor, resp))
           /\ all_images' = acc
           /\ next_cursor' = next_cursor
           /\ IF ~brk
              THEN UNCHANGED <<images, pc>>
              ELSE /\ images' = Project(acc)
                   /\ pc' = "listed"
    /\ UNCHANGED <<mode, backend, failing, prior, store, existing_tags, fi, idx,
                   results, final_results, wpos>>
    /\ UNCHANGED fnVars

\* one iteration of the while loop of fetch_images_from_folder(folder_arg)
FetchFolderPage ==
    /\ pc = "fetch" /\ mode # "full"
    /\ Len(log) < MaxRequests
    /\ LET folder == mode
           resp == Respond(backend, folder, next_cursor)
           acc == IF resp.ok THEN all_images \o TagFolder(resp.resources, folder)
                  ELSE all_images
           brk == ~resp.ok \/ Falsy(resp.next_cursor)
       IN  /\ log' = Append(log, LogEntry(folder, next_cursor, resp))
           /\ all_images' = acc
           /\ IF ~brk
              THEN /\ next_cursor' = resp.next_cursor
                   /\ UNCHANGED <<images, pc>>
              ELSE /\ next_cursor' = IF resp.ok THEN resp.next_cursor ELSE next_cursor
                   /\ images' = Project(acc)
                   /\ pc' = "listed"
    /\ UNCHANGED <<mode, backend, failing, prior, store, existing_tags, fi, idx,
                   results, final_results, wpos>>
    /\ UNCHANGED fnVars

\* process_all_images without its early return on an empty listing
CheckImagesAllNoReturn ==
    /\ pc = "listed" /\ mode = "full"
    /\ pc' = IF images = <<>> THEN "save" ELSE "process"
    /\ UNCHANGED <<mode, backend, failing, prior, store, existing_tags, fi,
                   next_cursor, all_images, log, images, idx, results,
                   final_results, wpos>>
    /\ UNCHANGED fnVars

\* process_all_images: if not images: return
CheckImagesAll ==
    /\ pc = "listed" /\ mode = "full"
    /\ pc' = IF images = <<>> THEN "done" ELSE "process"
    /\ UNCHANGED <<mode, backend, failing, prior, store, existing_tags, fi,
                   next_cursor, all_images, log, images, idx, results,
                   final_results, wpos>>
    /\ UNCHANGED fnVars

\* single-folder branch: if images:
CheckImagesFolder ==
    /\ pc = "listed" /\ mode # "full"
    /\ pc' = IF images # <<>> THEN "process" ELSE "done"
    /\ UNCHANGED <<mode, backend, failing, prior, store, existing_tags, fi,
                   next_cursor, all_images, log, images, idx, results,
                   final_results, wpos>>
    /\ UNCHANGED fnVars

(* ------------------------------------------------------------------ *)
(* Per-asset processing                                                 *)
(* ------------------------------------------------------------------ *)
\* download_image: None on any request or decode error
download_image(url, failset) ==
    IF \E id \in failset : UrlOf(id) = url THEN None ELSE <<"image", url>>

\* the entry stored for an asset whose image carries no EXIF date
ResultOf(img_data) ==
    [url |-> img_data.url, folder |-> img_data.folder,
     created_at |-> img_data.created_at]

\* the loop body without its "continue" on a failed download
ProcessStepNoSkip(rs, img_data, failset) ==
    DictSet(rs, img_data.public_id, ResultOf(img_data))

\* the body of the for loop, shared shape of both processing functions
ProcessStep(rs, img_data, failset) ==
    IF download_image(img_data.url, failset) = None
    THEN rs
    ELSE DictSet(rs, img_data.public_id, ResultOf(img_data))

\* one iteration of the loop of process_all_images
ProcessImageAll ==
    /\ pc = "process" /\ mode = "full"
    /\ idx <= Len(images)
    /\ results' = ProcessStep(results, images[idx], failing)
    /\ idx' = idx + 1
    /\ pc' = IF idx = Len(images) THEN "save" ELSE "process"
    /\ UNCHANGED <<mode, backend, failing, prior, store, existing_tags, fi,
                   next_cursor, all_images, log, images, final_results, wpos>>
    /\ UNCHANGED fnVars

\* one iteration of the loop of process_images_only
ProcessImageOnly ==
    /\ pc = "process" /\ mode # "full"
    /\ idx <= Len(images)
    /\ results' = ProcessStep(results, images[idx], failing)
    /\ idx' = idx + 1
    /\ pc' = IF idx = Len(images) THEN "merge" ELSE "process"
    /\ UNCHANGED <<mode, backend, failing, prior, store, existing_tags, fi,
                   next_cursor, all_images, log, images, final_results, wpos>>
    /\ UNCHANGED fnVars

(* ------------------------------------------------------------------ *)
(* Persisting                                                           *)
(* ------------------------------------------------------------------ *)
\* the full run writing the prior entries back along with its own
OpenWriteAllKeeping ==
    /\ pc = "save" /\ mode = "full"
    /\ final_results' = DictUnpack(StoreMap(store), results)
    /\ store' = Truncated
    /\ wpos' = 0
    /\ pc' = "dump"
    /\ UNCHANGED <<mode, backend, failing, prior, existing_tags, fi,
                   next_cursor, all_images, log, images, idx, results>>
    /\ UNCHANGED fnVars

\* process_all_images: open(output_file, 'w') truncates the file
OpenWriteAll ==
    /\ pc = "save" /\ mode = "full"
    /\ final_results' = results
    /\ store' = Truncated
    /\ wpos' = 0
    /\ pc' = "dump"
    /\ UNCHANGED <<mode, backend, failing, prior, existing_tags, fi,
                   next_cursor, all_images, log, images, idx, results>>
    /\ UNCHANGED fnVars

\* final_results = {**existing_tags, **results}; open('tags.json', 'w')
MergeAndOpen ==
    /\ pc = "merge" /\ mode # "full"
    /\ final_results' = DictUnpack(existing_tags, results)
    /\ store' = Truncated
    /\ wpos' = 0
    /\ pc' = "dump"
    /\ UNCHANGED <<mode, backend, failing, prior, existing_tags, fi,
                   next_cursor, all_images, log, images, idx, results>>
    /\ UNCHANGED fnVars

\* json.dump writes the object one entry at a time
DumpEntry ==
    /\ pc = "dump"
    /\ wpos < Len(final_results)
    /\ store' = [store EXCEPT !.entries = Append(@, final_results[wpos + 1])]
    /\ wpos' = wpos + 1
    /\ UNCHANGED <<mode, pc, backend, failing, prior, existing_tags, fi,
                   next_cursor, all_images, log, images, idx, results,
                   final_results>>
    /\ UNCHANGED fnVars

\* the closing brace, then the with block closes the file
DumpEnd ==
    /\ pc = "dump"
    /\ wpos = Len(final_results)
    /\ store' = [store EXCEPT !.closed = TRUE]
    /\ pc' = "done"
    /\ UNCHANGED <<mode, backend, failing, prior, existing_tags, fi,
                   next_cursor, all_images, log, images, idx, results,
                   final_results, wpos>>
    /\ UNCHANGED fnVars

\* a write raises (OSError) or the process is killed: the exception leaves
\* the with block, what was written stays
WriteFail ==
    /\ pc = "dump"
    /\ pc' = "crashed_write"
    /\ UNCHANGED <<mode, backend, failing, prior, store, existing_tags, fi,
                   next_cursor, all_images, log, images, idx, results,
                   final_results, wpos>>
    /\ UNCHANGED fnVars

Next ==
    \/ Start
    \/ LoadExisting
    \/ FetchAllPage
    \/ FetchFolderPage
    \/ CheckImagesAll
    \/ CheckImagesFolder
    \/ ProcessImageAll
    \/ ProcessImageOnly
    \/ OpenWriteAll
    \/ MergeAndOpen
    \/ DumpEntry
    \/ DumpEnd
    \/ WriteFail

Spec == Init /\ [][Next]_vars

(* ------------------------------------------------------------------ *)
(* Properties of the run                                                *)
(* ------------------------------------------------------------------ *)
Incremental == mode # "full"
ListingDone == pc \notin {"start", "load", "fetch", "crashed_load"}
ProcessingDone == pc \in {"save", "merge", "dump", "done", "crashed_write"} /\ images # <<>>

\* C1: when a single-folder run completes, tags.json holds exactly the prior
\* mapping overridden by the run's results: the keys are the union, a key of
\* the results has the results' value, any other key keeps its prior value.
IncrementalMerges ==
    (pc = "done" /\ Incremental) =>
        LET P == StoreMap(prior)
            R == results
            S == StoreMap(store)
        IN  /\ IsDict(S)
            /\ DictKeys(S) = DictKeys(P) \cup DictKeys(R)
            /\ \A k \in DictKeys(R) : DictGet(S, k) = DictGet(R, k)
            /\ \A k \in DictKeys(P) \ DictKeys(R) : DictGet(S, k) = DictGet(P, k)

\* a completed single-folder run with one prior entry kept, one overwritten
\* with a different value, and one entry new
IncrementalMergesWitness ==
    /\ pc = "done" /\ Incremental
    /\ \E a, b, c \in PriorIds \cup Ids :
        /\ DictHas(StoreMap(prior), a) /\ ~DictHas(results, a)
        /\ DictHas(StoreMap(prior), b) /\ DictHas(results, b)
        /\ DictGet(StoreMap(prior), b) # DictGet(results, b)
        /\ ~DictHas(StoreMap(prior), c) /\ DictHas(results, c)
        /\ DictHas(StoreMap(store), a) /\ DictHas(StoreMap(store), c)

\* C2 as stated: when a full run completes, tags.json holds exactly the
\* results of this run, whatever the listing returned.
FullRunAlwaysReplaces ==
    (pc = "done" /\ mode = "full") => Range(StoreMap(store)) = Range(results)

\* C2 amended: when a full run completes and the listing returned at least
\* one asset, tags.json is a complete file holding exactly the results of
\* this run; when the listing returned nothing, tags.json is as it was.
FullRunReplacesWhenListed ==
    (pc = "done" /\ mode = "full") =>
        IF images # <<>>
        THEN Parseable(store) /\ Range(store.entries) = Range(results)
             /\ Len(store.entries) = Len(results)
        ELSE store = prior

\* a completed full run that listed assets and dropped a prior entry
FullRunReplacesWitness ==
    /\ pc = "done" /\ mode = "full" /\ images # <<>>
    /\ \E k \in DictKeys(StoreMap(prior)) : ~DictHas(StoreMap(store), k)
    /\ results # <<>>

\* C3: once a run has ended, by completing or by an exception, tags.json
\* holds the complete prior content or the complete new mapping.
StoreNeverTorn ==
    pc \in {"done", "crashed_write", "crashed_load"} =>
        \/ store = prior
        \/ store = FileOf(final_results)

\* C4: a single-folder run is never aborted by loading tags.json.
LoadNeverAborts ==
    Incremental => pc # "crashed_load"

\* C5: once the processing loop has run over a listing of distinct ids, the
\* result set holds exactly the ids whose download did not fail, one entry
\* each, and no exception has ended the run before the results are saved.
ImageIds == {images[i].public_id : i \in 1..Len(images)}
DistinctIds == \A i, j \in 1..Len(images) :
                   images[i].public_id = images[j].public_id => i = j

DownloadFailuresSkip ==
    (ProcessingDone /\ DistinctIds) =>
        /\ DictKeys(results) = ImageIds \ failing
        /\ Len(results) = Len(images) - Cardinality(failing \cap ImageIds)
        /\ idx = Len(images) + 1

\* two distinct assets listed, the first fails to download, the second is kept
DownloadFailuresSkipWitness ==
    /\ ProcessingDone /\ DistinctIds
    /\ Len(images) = 2
    /\ images[1].public_id \in failing
    /\ images[2].public_id \notin failing
    /\ Len(results) = 1

\* what the backend serves for a folder before its failing request
Served(f) ==
    LET fb == backend[f]
        n == IF fb.errAt = 0 THEN Len(fb.pages) ELSE fb.errAt - 1
    IN  Flatten(SubSeq(fb.pages, 1, n))

ListedFrom(f) ==
    LET mine == SelectSeq(images, LAMBDA im : im.folder = f)
    IN  [i \in 1..Len(mine) |-> mine[i].public_id]

\* C6: when the listing has ended, every folder the run lists contributes
\* all the items of the pages served before its failing request, whatever
\* happened to the other folder.
ListingFailureFolderLocal ==
    ListingDone =>
        \A f \in FolderSet :
            ListedFrom(f) = IF mode \in {"full", f} THEN Served(f) ELSE <<>>

\* full listing: portfolio fails on its second page after a non-empty first
\* page, and rugby is listed all the same
ListingFailureWitness ==
    /\ ListingDone /\ mode = "full"
    /\ backend["portfolio"].errAt = 2
    /\ ListedFrom("portfolio") # <<>>
    /\ ListedFrom("rugby") # <<>>

RECURSIVE LoggedItems(_)
LoggedItems(l) ==
    IF l = <<>> THEN <<>>
    ELSE (IF Head(l).ok
          THEN [i \in 1..Len(Head(l).resources) |->
                   [public_id |-> Head(l).resources[i].public_id,
                    folder |-> Head(l).folder]]
          ELSE <<>>) \o LoggedItems(Tail(l))

FirstOfFolder(i) == i = 1 \/ log[i - 1].folder # log[i].folder
LastOfFolder(i) == i = Len(log) \/ log[i + 1].folder # log[i].folder

\* C7: every request asks for at most 500 items; the first request of a
\* folder carries no cursor; a later request follows a successful response
\* that carried a cursor and carries that cursor; once the listing has ended
\* no folder's last successful response carries a cursor; and the listing
\* is the pages' items in request order, each tagged with its folder.
PaginationFollowsCursor ==
    /\ \A i \in 1..Len(log) :
        /\ log[i].max_results <= 500
        /\ FirstOfFolder(i) => log[i].cursor = None
        /\ ~FirstOfFolder(i) =>
              /\ log[i - 1].ok
              /\ log[i - 1].next # None
              /\ log[i].cursor = log[i - 1].next
        /\ (ListingDone /\ LastOfFolder(i) /\ log[i].ok) => log[i].next = None
        /\ (~LastOfFolder(i) /\ FirstOfFolder(i + 1)) =>
              (~log[i].ok \/ log[i].next = None)
    /\ ListingDone =>
          [i \in 1..Len(images) |->
              [public_id |-> images[i].public_id, folder |-> images[i].folder]]
          = LoggedItems(log)

\* a folder listed in two requests, the second carrying the first's cursor,
\* with two items listed
PaginationWitness ==
    /\ ListingDone
    /\ Len(log) >= 2
    /\ log[1].folder = log[2].folder
    /\ log[2].cursor # None /\ log[2].ok
    /\ Len(images) = 2
    /\ images[1].public_id # images[2].public_id

(* ------------------------------------------------------------------ *)
(* filter_bw_tags                                                       *)
(* ------------------------------------------------------------------ *)
\* a string is the sequence of its characters
UpperChars == <<"A", "B", "C", "D", "E", "F", "G", "H", "I", "J", "K", "L", "M", "N", "O", "P", "Q", "R", "S", "T", "U", "V", "W", "X", "Y", "Z">>
LowerChars == <<"a", "b", "c", "d", "e", "f", "g", "h", "i", "j", "k", "l", "m", "n", "o", "p", "q", "r", "s", "t", "u", "v", "w", "x", "y", "z">>

\* str.lower on one character
LowerChar(c) ==
    IF \E i \in 1..Len(UpperChars) : UpperChars[i] = c
    THEN LowerChars[CHOOSE i \in 1..Len(UpperChars) : UpperChars[i] = c]
    ELSE c

\* tag.lower()
Lower(str) == [i \in 1..Len(str) |-> LowerChar(str[i])]

\* saturation is counted in hundredths: 0.15 is 15
SATURATION_THRESHOLD == 15

bw_keywords == <<
    <<"b", "l", "a", "c", "k", " ", "a", "n", "d", " ", "w", "h", "i", "t", "e">>,
    <<"g", "r", "a", "y", "s", "c", "a", "l", "e">>,
    <<"m", "o", "n", "o", "c", "h", "r", "o", "m", "e">>,
    <<"s", "e", "p", "i", "a", " ", "t", "o", "n", "e">>,
    <<"d", "u", "o", "t", "o", "n", "e">> >>

InList(x, l) == \E i \in 1..Len(l) : l[i] = x

\* [tag for tag in tags if tag.lower() not in bw_keywords]
RECURSIVE KeepColored(_)
KeepColored(tags) ==
    IF tags = <<>> THEN <<>>
    ELSE (IF ~InList(Lower(Head(tags)), bw_keywords) THEN <<Head(tags)>> ELSE <<>>)
         \o KeepColored(Tail(tags))

\* the filter applied from the threshold on, not only above it
filter_bw_tags_at_threshold(tags, sat) ==
    IF sat >= SATURATION_THRESHOLD
    THEN LET kept == KeepColored(tags)
         IN  IF kept = <<>> THEN tags ELSE kept
    ELSE tags

filter_bw_tags(tags, sat) ==
    IF sat > SATURATION_THRESHOLD
    THEN LET kept == KeepColored(tags)
         IN  IF kept = <<>> THEN tags ELSE kept
    ELSE tags

MaxTags == 3         \* tags in one color-tag list, at most

\* tags a caller may pass: keywords, their case variants, near misses
\* and ordinary color labels
SampleTags == {
    <<"g", "r", "a", "y", "s", "c", "a", "l", "e">>,
    <<"G", "r", "a", "y", "s", "c", "a", "l", "e">>,
    <<"s", "e", "p", "i", "a", " ", "t", "o", "n", "e">>,
    <<"s", "e", "p", "i", "a">>,
    <<"w", "a", "r", "m", " ", "c", "o", "l", "o", "r", "s">>,
    <<"c", "o", "o", "l", " ", "c", "o", "l", "o", "r", "s">> }

\* hundredths of average saturation, the threshold and its neighbours included
SampleSaturations == {0, 5, 14, 15, 16, 50, 90, 100}

InitFilter ==
    /\ color_tags \in SeqsUpTo(SampleTags, MaxTags)
    /\ saturation \in SampleSaturations
    /\ filtered_tags = <<>>
    /\ fpc = "call"
    /\ RunIdle /\ ClipIdle /\ MoreIdle

\* color_tags = filter_bw_tags(color_tags_raw, saturation)
FilterCall ==
    /\ fpc = "call"
    /\ filtered_tags' = filter_bw_tags(color_tags, saturation)
    /\ fpc' = "returned"
    /\ UNCHANGED <<color_tags, saturation>>
    /\ UNCHANGED <<runVars, clipVars, moreVars>>

NextFilter == FilterCall

SpecFilter == InitFilter /\ [][NextFilter]_vars

\* the keyword test of the reference: equal up to the case of each character
SameIgnoringCase(a, b) ==
    Len(a) = Len(b) /\ \A i \in 1..Len(a) : LowerChar(a[i]) = LowerChar(b[i])

Achromatic(tag) == \E k \in 1..Len(bw_keywords) : SameIgnoringCase(tag, bw_keywords[k])

ColoredPositions(tags) == {i \in 1..Len(tags) : ~Achromatic(tags[i])}

\* the n-th smallest member of a set of positions
NthOf(S, n) == CHOOSE i \in S : Cardinality({m \in S : m <= i}) = n

\* C8: at or below 0.15 the tags come back unchanged; above it the result is
\* the non-achromatic tags in their order, or the unchanged input when every
\* tag is achromatic.
FilterMatchesReference ==
    fpc = "returned" =>
        IF saturation <= 15 THEN filtered_tags = color_tags
        ELSE IF ColoredPositions(color_tags) = {} THEN filtered_tags = color_tags
        ELSE /\ Len(filtered_tags) = Cardinality(ColoredPositions(color_tags))
             /\ \A n \in 1..Len(filtered_tags) :
                    filtered_tags[n] = color_tags[NthOf(ColoredPositions(color_tags), n)]

\* above the threshold, a keyword in another case is removed from between
\* two tags that stay
FilterWitness ==
    /\ fpc = "returned" /\ saturation > 15
    /\ Len(color_tags) = 3 /\ Len(filtered_tags) = 2
    /\ Achromatic(color_tags[2]) /\ color_tags[2] # Lower(color_tags[2])
    /\ filtered_tags[1] = color_tags[1] /\ filtered_tags[2] = color_tags[3]
    /\ filtered_tags[1] # filtered_tags[2]

(* ------------------------------------------------------------------ *)
(* get_clip_tags                                                        *)
(* ------------------------------------------------------------------ *)
LabelCount == 6      \* labels of each taxonomy kept in the model, in source order
MaxScore == 2        \* similarity scores range over 0..MaxScore

TAGS_PER_IMAGE == 5
STYLE_TAGS_PER_IMAGE == 3
LIGHTING_TAGS_PER_IMAGE == 2
COLOR_TAGS_PER_IMAGE == 2

CONTENT_LABELS == <<"mountain", "beach", "ocean", "forest", "desert", "lake",
                    "river", "waterfall", "sunset">>
STYLE_LABELS == <<"cinematic", "documentary", "street photography",
                  "landscape photography", "portrait photography",
                  "wildlife photography", "macro photography",
                  "aerial photography", "underwater photography">>
LIGHTING_LABELS == <<"golden hour", "blue hour", "sunrise light", "sunset light",
                     "midday sun", "overcast light", "soft light", "harsh light",
                     "dappled light">>
COLOR_LABELS == <<"warm colors", "cool colors", "pastel colors", "black and white",
                  "grayscale", "sepia tone", "duotone", "colorful",
                  "multicolored">>

Taxonomies == {"content", "style", "lighting", "color"}

\* the (labels, top_k) pair of each of the four calls of the processing loop
LabelsOf(t) ==
    SubSeq(CASE t = "content" -> CONTENT_LABELS
             [] t = "style" -> STYLE_LABELS
             [] t = "lighting" -> LIGHTING_LABELS
             [] OTHER -> COLOR_LABELS, 1, LabelCount)

TopKOf(t) ==
    CASE t = "content" -> TAGS_PER_IMAGE
      [] t = "style" -> STYLE_TAGS_PER_IMAGE
      [] t = "lighting" -> LIGHTING_TAGS_PER_IMAGE
      [] OTHER -> COLOR_TAGS_PER_IMAGE

\* similarity.topk(k): the indices of k largest entries, largest first.
\* Which of several equal entries comes first, or is taken at all, is not
\* fixed by the library: every choice is an outcome.
RECURSIVE TopKFrom(_, _, _)
TopKFrom(sim, remaining, k) ==
    IF k = 0 THEN {<<>>}
    ELSE UNION {{<<i>> \o r : r \in TopKFrom(sim, remaining \ {i}, k - 1)} :
                   i \in {j \in remaining : \A m \in remaining : sim[m] <= sim[j]}}

\* topk taking the smallest entries (largest=False)
RECURSIVE BottomKFrom(_, _, _)
BottomKFrom(sim, remaining, k) ==
    IF k = 0 THEN {<<>>}
    ELSE UNION {{<<i>> \o r : r \in BottomKFrom(sim, remaining \ {i}, k - 1)} :
                   i \in {j \in remaining : \A m \in remaining : sim[j] <= sim[m]}}

topk_smallest(sim, k) == BottomKFrom(sim, 1..Len(sim), k)

topk(sim, k) == TopKFrom(sim, 1..Len(sim), k)

\* get_clip_tags asking topk for one label too many
get_clip_tags_one_more(labels, top_k, sim, fails) ==
    IF fails \/ top_k + 1 > Len(labels)
    THEN {<<>>}
    ELSE {[n \in 1..(top_k + 1) |-> labels[indices[n]]] : indices \in topk(sim, top_k + 1)}

\* the values get_clip_tags may return; [] when anything in the try raises,
\* which topk does when k exceeds the number of labels
get_clip_tags(labels, top_k, sim, fails) ==
    IF fails \/ top_k > Len(labels)
    THEN {<<>>}
    ELSE {[n \in 1..top_k |-> labels[indices[n]]] : indices \in topk(sim, top_k)}

InitClip ==
    /\ taxonomy \in Taxonomies
    /\ similarity \in [1..LabelCount -> 0..MaxScore]
    /\ clip_fails \in BOOLEAN
    /\ clip_tags = <<>>
    /\ cpc = "call"
    /\ RunIdle /\ FilterIdle /\ MoreIdle

\* one of the four get_clip_tags(image, ..._LABELS, ..._PER_IMAGE) calls
ClipCall ==
    /\ cpc = "call"
    /\ clip_tags' \in get_clip_tags(LabelsOf(taxonomy), TopKOf(taxonomy),
                                     similarity, clip_fails)
    /\ cpc' = "returned"
    /\ UNCHANGED <<taxonomy, similarity, clip_fails>>
    /\ UNCHANGED <<runVars, filterVars, moreVars>>

NextClip == ClipCall

SpecClip == InitClip /\ [][NextClip]_vars

Selected(label) == \E n \in 1..Len(clip_tags) : clip_tags[n] = label

PosOf(label) == CHOOSE n \in 1..Len(clip_tags) : clip_tags[n] = label

IndexOf(label) ==
    CHOOSE i \in 1..Len(LabelsOf(taxonomy)) : LabelsOf(taxonomy)[i] = label

\* C9: whatever the taxonomy and the scores, and also when the classifier
\* fails, the returned list is no longer than the taxonomy's top_k, holds
\* only labels of the taxonomy and holds none twice.
ClipTagsBounded ==
    cpc = "returned" =>
        /\ Len(clip_tags) <= TopKOf(taxonomy)
        /\ \A n \in 1..Len(clip_tags) : clip_tags[n] \in Range(LabelsOf(taxonomy))
        /\ \A n, m \in 1..Len(clip_tags) : clip_tags[n] = clip_tags[m] => n = m

\* a successful call on the content taxonomy returning its full top_k, with
\* equal scores among the labels
ClipTagsBoundedWitness ==
    /\ cpc = "returned" /\ ~clip_fails
    /\ taxonomy = "content"
    /\ Len(clip_tags) = TopKOf(taxonomy)
    /\ \E i, j \in 1..LabelCount : i # j /\ similarity[i] = similarity[j]

\* C10 as stated: of two labels with equal scores the one of lower index is
\* selected whenever the other is, and is placed ahead of it.
TopKStable ==
    (cpc = "returned" /\ ~clip_fails) =>
        \A i, j \in 1..LabelCount :
            (i < j /\ similarity[i] = similarity[j]
                   /\ Selected(LabelsOf(taxonomy)[j])) =>
                /\ Selected(LabelsOf(taxonomy)[i])
                /\ PosOf(LabelsOf(taxonomy)[i]) < PosOf(LabelsOf(taxonomy)[j])

\* C10 amended: a successful call returns top_k labels, no unselected label
\* scores above a selected one, and the returned order is by score
\* non-increasing; nothing is promised about labels of equal score.
TopKHighest ==
    (cpc = "returned" /\ ~clip_fails) =>
        /\ Len(clip_tags) = TopKOf(taxonomy)
        /\ \A n, m \in 1..Len(clip_tags) :
              n < m => similarity[IndexOf(clip_tags[n])] >= similarity[IndexOf(clip_tags[m])]
        /\ \A i \in 1..LabelCount :
              ~Selected(LabelsOf(taxonomy)[i]) =>
                  \A n \in 1..Len(clip_tags) :
                      similarity[i] <= similarity[IndexOf(clip_tags[n])]

\* a successful call with scores that differ, in which a label tied with an
\* unselected label of lower index was selected
TopKHighestWitness ==
    /\ cpc = "returned" /\ ~clip_fails
    /\ \E i, j \in 1..LabelCount : similarity[i] < similarity[j]
    /\ \E i, j \in 1..LabelCount :
          /\ i < j /\ similarity[i] = similarity[j]
          /\ Selected(LabelsOf(taxonomy)[j]) /\ ~Selected(LabelsOf(taxonomy)[i])
    /\ \E n, m \in 1..Len(clip_tags) :
          similarity[IndexOf(clip_tags[n])] > similarity[IndexOf(clip_tags[m])]

(* ------------------------------------------------------------------ *)
(* get_photo_date and the created_at of a result                        *)
(* ------------------------------------------------------------------ *)
\* A date string is its layout and its six numbers: layout "exif" is
\* "Y:m:d H:M:S", layout "iso" is "Y-m-dTH:M:S", layout "text" is anything
\* else.
ExifDate(y, mo, d, h, mi, sec) == [layout |-> "exif", fields |-> <<y, mo, d, h, mi, sec>>]

LeapYear(y) == (y % 4 = 0 /\ y % 100 # 0) \/ y % 400 = 0

DaysIn(y, mo) ==
    IF mo = 2 THEN (IF LeapYear(y) THEN 29 ELSE 28)
    ELSE IF mo \in {4, 6, 9, 11} THEN 30 ELSE 31

\* datetime.strptime(value, "%Y:%m:%d %H:%M:%S") raises unless the layout
\* matches and the numbers name a date and a time
StrptimeOk(v) ==
    /\ v.layout = "exif"
    /\ v.fields[1] \in 1..9999
    /\ v.fields[2] \in 1..12
    /\ v.fields[3] \in 1..DaysIn(v.fields[1], v.fields[2])
    /\ v.fields[4] \in 0..23
    /\ v.fields[5] \in 0..59
    /\ v.fields[6] \in 0..59

\* dt.isoformat()
IsoFormat(v) == [layout |-> "iso", fields |-> v.fields]

\* try: return strptime(...).isoformat()  except: return value
ParseOrRaw(v) == IF StrptimeOk(v) THEN IsoFormat(v) ELSE v

\* Image.open gives a format plugin's image, which has _getexif;
\* image.convert('RGB') gives a plain Image, which has not
download_and_convert(file) ==
    IF file.mode # "RGB"
    THEN [file EXCEPT !.mode = "RGB", !.has_getexif = FALSE]
    ELSE file

\* get_photo_date: any exception, the missing _getexif included, gives None
get_photo_date(img) ==
    IF ~img.has_getexif THEN NoDate
    ELSE IF ~img.has_exif THEN NoDate
    ELSE IF img.DateTimeOriginal # NoDate THEN ParseOrRaw(img.DateTimeOriginal)
    ELSE IF img.DateTime # NoDate THEN ParseOrRaw(img.DateTime)
    ELSE NoDate

\* photo_date = get_photo_date(image); if None: img_data.get("created_at", "")
resolve_created_at(img, listed) ==
    IF get_photo_date(img) = NoDate THEN listed ELSE get_photo_date(img)

SampleCaptureDates ==
    {NoDate, ExifDate(2024, 12, 25, 14, 30, 45), ExifDate(0, 0, 0, 0, 0, 0),
     [layout |-> "text", fields |-> <<2024, 12, 25, 14, 30, 45>>]}

SampleModifyDates ==
    {NoDate, ExifDate(2025, 1, 2, 3, 4, 5), ExifDate(2025, 13, 2, 3, 4, 5)}

SampleListedDates ==
    {[layout |-> "iso", fields |-> <<2026, 6, 7, 8, 9, 10>>],
     [layout |-> "text", fields |-> <<>>]}

\* the files the asset's url may serve: a JPEG in some color mode, with no
\* EXIF block or with one that holds either date tag or none
ServedFiles ==
    {[mode |-> m, has_getexif |-> TRUE, has_exif |-> e,
      DateTimeOriginal |-> o, DateTime |-> t] :
        m \in {"RGB", "L", "CMYK"}, e \in BOOLEAN,
        o \in SampleCaptureDates, t \in SampleModifyDates}

InitDate ==
    /\ served \in {f \in ServedFiles :
                      ~f.has_exif => (f.DateTimeOriginal = NoDate /\ f.DateTime = NoDate)}
    /\ created_at \in SampleListedDates
    /\ image = NoImage
    /\ photo_date = NoDate
    /\ dpc = "download"
    /\ RunIdle /\ FilterIdle /\ ClipIdle /\ AssetIdle /\ PaletteIdle /\ SeqIdle

\* image = download_image(url)
DateDownload ==
    /\ dpc = "download"
    /\ image' = download_and_convert(served)
    /\ dpc' = "date"
    /\ UNCHANGED <<served, created_at, photo_date>>
    /\ UNCHANGED <<runVars, filterVars, clipVars, assetVars, paletteVars, seqVars>>

\* photo_date as stored under "created_at" in the result
DateResolve ==
    /\ dpc = "date"
    /\ photo_date' = resolve_created_at(image, created_at)
    /\ dpc' = "resolved"
    /\ UNCHANGED <<served, created_at, image>>
    /\ UNCHANGED <<runVars, filterVars, clipVars, assetVars, paletteVars, seqVars>>

NextDate == DateDownload \/ DateResolve

SpecDate == InitDate /\ [][NextDate]_vars

\* C11: the stored timestamp comes from the capture-time field when the
\* served image has one (ISO-8601 when it parses, the raw value otherwise),
\* else from the file-modification field under the same rule, and from the
\* listing only when the image has neither; whatever the color mode.
TimestampPriority ==
    dpc = "resolved" =>
        photo_date =
            IF served.has_exif /\ served.DateTimeOriginal # NoDate
            THEN (IF StrptimeOk(served.DateTimeOriginal)
                  THEN [layout |-> "iso", fields |-> served.DateTimeOriginal.fields]
                  ELSE served.DateTimeOriginal)
            ELSE IF served.has_exif /\ served.DateTime # NoDate
            THEN (IF StrptimeOk(served.DateTime)
                  THEN [layout |-> "iso", fields |-> served.DateTime.fields]
                  ELSE served.DateTime)
            ELSE created_at

(* ------------------------------------------------------------------ *)
(* The tagging of one asset                                             *)
(* ------------------------------------------------------------------ *)
\* the characters of a color label
CharsOf(l) ==
    CASE l = "warm colors" -> <<"w", "a", "r", "m", " ", "c", "o", "l", "o", "r", "s">>
      [] l = "cool colors" -> <<"c", "o", "o", "l", " ", "c", "o", "l", "o", "r", "s">>
      [] l = "pastel colors" -> <<"p", "a", "s", "t", "e", "l", " ", "c", "o", "l", "o", "r", "s">>
      [] l = "black and white" -> <<"b", "l", "a", "c", "k", " ", "a", "n", "d", " ", "w", "h", "i", "t", "e">>
      [] l = "grayscale" -> <<"g", "r", "a", "y", "s", "c", "a", "l", "e">>
      [] l = "sepia tone" -> <<"s", "e", "p", "i", "a", " ", "t", "o", "n", "e">>
      [] l = "duotone" -> <<"d", "u", "o", "t", "o", "n", "e">>
      [] l = "colorful" -> <<"c", "o", "l", "o", "r", "f", "u", "l">>
      [] l = "multicolored" -> <<"m", "u", "l", "t", "i", "c", "o", "l", "o", "r", "e", "d">>

LabelOfChars(cs) == CHOOSE l \in Range(COLOR_LABELS) : CharsOf(l) = cs

\* filter_bw_tags on a list of color labels
filter_color_labels(tags, sat) ==
    LET out == filter_bw_tags([i \in 1..Len(tags) |-> CharsOf(tags[i])], sat)
    IN  [i \in 1..Len(out) |-> LabelOfChars(out[i])]

\* similarity vectors of the image against a taxonomy: rising, falling, and
\* peaking in the middle with two equal scores at the peak
SampleScores ==
    {[i \in 1..LabelCount |-> i],
     [i \in 1..LabelCount |-> LabelCount + 1 - i],
     [i \in 1..LabelCount |-> IF i <= LabelCount - i THEN i ELSE LabelCount + 1 - i]}

InitAsset ==
    /\ failing_taxonomies \in SUBSET Taxonomies
    /\ scores \in [Taxonomies -> SampleScores]
    /\ avg_saturation \in {5, 90}
    /\ content_tags = <<>> /\ style_tags = <<>> /\ lighting_tags = <<>>
    /\ color_tags_raw = <<>> /\ entry = NoEntry
    /\ apc = "content"
    /\ RunIdle /\ FilterIdle /\ ClipIdle /\ DateIdle /\ PaletteIdle /\ SeqIdle

ClipOutcomes(t) ==
    get_clip_tags(LabelsOf(t), TopKOf(t), scores[t], t \in failing_taxonomies)

\* content_tags = get_clip_tags(image, CONTENT_LABELS, TAGS_PER_IMAGE)
AssetContent ==
    /\ apc = "content"
    /\ content_tags' \in ClipOutcomes("content")
    /\ apc' = "style"
    /\ UNCHANGED <<failing_taxonomies, scores, avg_saturation, style_tags,
                   lighting_tags, color_tags_raw, entry>>
    /\ UNCHANGED <<runVars, filterVars, clipVars, dateVars, paletteVars, seqVars>>

\* style_tags = get_clip_tags(image, STYLE_LABELS, STYLE_TAGS_PER_IMAGE)
AssetStyle ==
    /\ apc = "style"
    /\ style_tags' \in ClipOutcomes("style")
    /\ apc' = "lighting"
    /\ UNCHANGED <<failing_taxonomies, scores, avg_saturation, content_tags,
                   lighting_tags, color_tags_raw, entry>>
    /\ UNCHANGED <<runVars, filterVars, clipVars, dateVars, paletteVars, seqVars>>

\* lighting_tags = get_clip_tags(image, LIGHTING_LABELS, LIGHTING_TAGS_PER_IMAGE)
AssetLighting ==
    /\ apc = "lighting"
    /\ lighting_tags' \in ClipOutcomes("lighting")
    /\ apc' = "color"
    /\ UNCHANGED <<failing_taxonomies, scores, avg_saturation, content_tags,
                   style_tags, color_tags_raw, entry>>
    /\ UNCHANGED <<runVars, filterVars, clipVars, dateVars, paletteVars, seqVars>>

\* color_tags_raw = get_clip_tags(image, COLOR_LABELS, COLOR_TAGS_PER_IMAGE)
AssetColor ==
    /\ apc = "color"
    /\ color_tags_raw' \in ClipOutcomes("color")
    /\ apc' = "store"
    /\ UNCHANGED <<failing_taxonomies, scores, avg_saturation, content_tags,
                   style_tags, lighting_tags, entry>>
    /\ UNCHANGED <<runVars, filterVars, clipVars, dateVars, paletteVars, seqVars>>

\* all_tags built from the unfiltered color tags
AssetStoreRawColors ==
    /\ apc = "store"
    /\ LET colors == filter_color_labels(color_tags_raw, avg_saturation)
       IN  entry' = [content |-> content_tags, style |-> style_tags,
                     lighting |-> lighting_tags, colors |-> colors,
                     all_tags |-> content_tags \o style_tags \o lighting_tags
                                  \o color_tags_raw]
    /\ apc' = "stored"
    /\ UNCHANGED <<failing_taxonomies, scores, avg_saturation, content_tags,
                   style_tags, lighting_tags, color_tags_raw>>
    /\ UNCHANGED <<runVars, filterVars, clipVars, dateVars, paletteVars, seqVars>>

\* color_tags = filter_bw_tags(...); all_tags = ...; results[public_id] = {...}
\* (the tag fields of the entry)
AssetStore ==
    /\ apc = "store"
    /\ LET colors == filter_color_labels(color_tags_raw, avg_saturation)
       IN  entry' = [content |-> content_tags, style |-> style_tags,
                     lighting |-> lighting_tags, colors |-> colors,
                     all_tags |-> content_tags \o style_tags \o lighting_tags
                                  \o colors]
    /\ apc' = "stored"
    /\ UNCHANGED <<failing_taxonomies, scores, avg_saturation, content_tags,
                   style_tags, lighting_tags, color_tags_raw>>
    /\ UNCHANGED <<runVars, filterVars, clipVars, dateVars, paletteVars, seqVars>>

NextAsset ==
    \/ AssetContent
    \/ AssetStyle
    \/ AssetLighting
    \/ AssetColor
    \/ AssetStore

SpecAsset == InitAsset /\ [][NextAsset]_vars

RecordedTags(t) ==
    CASE t = "content" -> entry.content
      [] t = "style" -> entry.style
      [] t = "lighting" -> entry.lighting
      [] OTHER -> entry.colors

\* C12: once the asset's entry is stored, a taxonomy whose scoring failed has
\* an empty list, every other taxonomy has its tags recorded (top_k of them,
\* for the colors what the filter leaves of them, never nothing), and
\* all_tags is content, style, lighting, colors of the entry in this order.
ClassificationFailureLocal ==
    apc = "stored" =>
        /\ \A t \in failing_taxonomies : RecordedTags(t) = <<>>
        /\ \A t \in Taxonomies \ (failing_taxonomies \cup {"color"}) :
              Len(RecordedTags(t)) = TopKOf(t)
        /\ "color" \notin failing_taxonomies =>
              /\ entry.colors # <<>>
              /\ Range(entry.colors) \subseteq Range(LabelsOf("color"))
        /\ entry.all_tags =
              entry.content \o entry.style \o entry.lighting \o entry.colors

\* an entry stored with one taxonomy failed and empty, the three others
\* recorded, and a color tag removed by the filter
ClassificationFailureWitness ==
    /\ apc = "stored"
    /\ failing_taxonomies = {"style"}
    /\ entry.style = <<>>
    /\ entry.content # <<>> /\ entry.lighting # <<>> /\ entry.colors # <<>>
    /\ Len(entry.colors) < Len(color_tags_raw)
    /\ Len(entry.all_tags) = Len(entry.content) + Len(entry.lighting) + Len(entry.colors)

(* ------------------------------------------------------------------ *)
(* get_color_palette                                                    *)
(* ------------------------------------------------------------------ *)
MaxPixels == 6       \* pixels of the thumbnail, at most

NUM_COLORS == 5

\* kmeans.cluster_centers_: the color of each cluster
ClusterCenter(c) == [r |-> 40 * c, g |-> 128, b |-> 255 - 40 * c]

MaxOf(S) == CHOOSE x \in S : \A y \in S : y <= x

\* np.bincount(labels): one count per value from 0 to the largest label
bincount(labels) ==
    [c \in 0..MaxOf(Range(labels)) |->
        Cardinality({i \in 1..Len(labels) : labels[i] = c})]

\* the orders of the cluster indices a sort by the given key may produce;
\* entries of equal key come in any order
RECURSIVE SortedFrom(_, _)
SortedFrom(key, remaining) ==
    IF remaining = {} THEN {<<>>}
    ELSE UNION {{<<c>> \o r : r \in SortedFrom(key, remaining \ {c})} :
                   c \in {d \in remaining : \A e \in remaining : key[d] <= key[e]}}

SortedOrders(key) == SortedFrom(key, DOMAIN key)

\* np.argsort(counts): least frequent first
argsort_ascending(counts) == SortedOrders(counts)

\* np.argsort(-counts)
argsort_descending(counts) == SortedOrders([c \in DOMAIN counts |-> 0 - counts[c]])

\* a weight is the fraction num / den
DefaultPalette == <<[r |-> 128, g |-> 128, b |-> 128, weight |-> [num |-> 1, den |-> 1]]>>

\* the palettes get_color_palette may return; KMeans raises when there are
\* fewer pixels than clusters, and any exception gives the default
get_color_palette(labels, fails) ==
    IF fails \/ Len(labels) < NUM_COLORS
    THEN {DefaultPalette}
    ELSE LET counts == bincount(labels)
         IN  {[n \in 1..Len(indices) |->
                  [r |-> ClusterCenter(indices[n]).r,
                   g |-> ClusterCenter(indices[n]).g,
                   b |-> ClusterCenter(indices[n]).b,
                   weight |-> [num |-> counts[indices[n]], den |-> Len(labels)]]] :
                 indices \in argsort_descending(counts)}

InitPalette ==
    /\ kmeans_labels \in UNION {[1..n -> 0..(NUM_COLORS - 1)] : n \in 1..MaxPixels}
    /\ kmeans_fails \in BOOLEAN
    \* no clustering comes out of a failed call
    /\ (kmeans_fails \/ Len(kmeans_labels) < NUM_COLORS) =>
          \A i \in 1..Len(kmeans_labels) : kmeans_labels[i] = 0
    /\ palette = <<>>
    /\ ppc = "call"
    /\ RunIdle /\ FilterIdle /\ ClipIdle /\ DateIdle /\ AssetIdle /\ SeqIdle

\* color_palette = get_color_palette(image, num_colors=5)
PaletteCall ==
    /\ ppc = "call"
    /\ palette' \in get_color_palette(kmeans_labels, kmeans_fails)
    /\ ppc' = "returned"
    /\ UNCHANGED <<kmeans_labels, kmeans_fails>>
    /\ UNCHANGED <<runVars, filterVars, clipVars, dateVars, assetVars, seqVars>>

NextPalette == PaletteCall

SpecPalette == InitPalette /\ [][NextPalette]_vars

RECURSIVE SumOfNums(_)
SumOfNums(p) == IF p = <<>> THEN 0 ELSE Head(p).weight.num + SumOfNums(Tail(p))

\* C13: the returned palette, the default included, has weights over one
\* common denominator whose numerators add up to it (the weights sum to 1),
\* each a pixel count over the number of pixels, and no weight is larger
\* than one before it.
PaletteWeightsNormalised ==
    ppc = "returned" =>
        /\ palette # <<>>
        /\ \A n \in 1..Len(palette) :
              /\ palette[n].weight.den = palette[1].weight.den
              /\ palette[n].weight.num \in 0..palette[n].weight.den
        /\ SumOfNums(palette) = palette[1].weight.den
        /\ \A n, m \in 1..Len(palette) :
              n < m => palette[n].weight.num * palette[m].weight.den
                       >= palette[m].weight.num * palette[n].weight.den

\* a clustering that succeeded, with five clusters of which one holds more
\* pixels than the others
PaletteWitness ==
    /\ ppc = "returned" /\ ~kmeans_fails
    /\ Len(palette) = NUM_COLORS
    /\ palette[1].weight.num > palette[2].weight.num
    /\ palette[2].weight.num = palette[3].weight.num
    /\ palette[1].weight.den = Len(kmeans_labels)

(* ------------------------------------------------------------------ *)
(* Two folder runs against one full run                                 *)
(* ------------------------------------------------------------------ *)
\* a new process: every variable of the script starts afresh, tags.json and
\* the backend are what they are
FreshRun(m) ==
    /\ mode' = m
    /\ pc' = "start"
    /\ existing_tags' = <<>>
    /\ fi' = 1
    /\ next_cursor' = None
    /\ all_images' = <<>>
    /\ log' = <<>>
    /\ images' = <<>>
    /\ idx' = 1
    /\ results' = <<>>
    /\ final_results' = <<>>
    /\ wpos' = 0
    /\ UNCHANGED <<backend, failing>>

InitSeq ==
    /\ RunInit({"portfolio"}, Backends, SUBSET Ids, {Absent})
    /\ phase = "portfolio"
    /\ snapshot = Absent
    /\ FilterIdle /\ ClipIdle /\ DateIdle /\ AssetIdle /\ PaletteIdle

\* python classify_cloudinary.py rugby, after the portfolio run has ended
RunRugby ==
    /\ phase = "portfolio" /\ pc = "done"
    /\ FreshRun("rugby")
    /\ prior' = store
    /\ phase' = "rugby"
    /\ UNCHANGED <<store, snapshot>>
    /\ UNCHANGED <<filterVars, clipVars, dateVars, assetVars, paletteVars>>

\* tags.json is set aside and removed, then python classify_cloudinary.py
RunFull ==
    /\ phase = "rugby" /\ pc = "done"
    /\ FreshRun("full")
    /\ snapshot' = store
    /\ store' = Absent
    /\ prior' = Absent
    /\ phase' = "full"
    /\ UNCHANGED <<filterVars, clipVars, dateVars, assetVars, paletteVars>>

NextSeq ==
    \/ Start
    \/ LoadExisting
    \/ FetchAllPage
    \/ FetchFolderPage
    \/ CheckImagesAll
    \/ CheckImagesFolder
    \/ ProcessImageAll
    \/ ProcessImageOnly
    \/ OpenWriteAll
    \/ MergeAndOpen
    \/ DumpEntry
    \/ DumpEnd
    \/ WriteFail
    \/ RunRugby
    \/ RunFull

SpecSeq == InitSeq /\ [][NextSeq]_vars

\* C14: when the portfolio run, the rugby run and then, from an absent
\* store, the full run have all completed against the same backend, the
\* full run leaves tags.json as the two folder runs left it: absent in both
\* cases, or a complete file with the same keys and the same values.
FolderRunsEqualFullRun ==
    (phase = "full" /\ pc = "done") =>
        /\ snapshot.exists = store.exists
        /\ Parseable(snapshot) = Parseable(store)
        /\ DictKeys(StoreMap(snapshot)) = DictKeys(StoreMap(store))
        /\ \A k \in DictKeys(StoreMap(store)) :
              DictGet(StoreMap(snapshot), k) = DictGet(StoreMap(store), k)

\* all three runs completed, an id listed in both folders, stored by both
\* ways as the rugby folder's asset
FolderRunsWitness ==
    /\ phase = "full" /\ pc = "done"
    /\ store.exists /\ snapshot.exists
    /\ \E i, j \in 1..Len(images) :
          /\ images[i].public_id = images[j].public_id
          /\ images[i].folder = "portfolio" /\ images[j].folder = "rugby"
          /\ DictHas(StoreMap(store), images[i].public_id)
          /\ DictGet(StoreMap(store), images[i].public_id).folder = "rugby"
          /\ DictGet(StoreMap(snapshot), images[i].public_id).folder = "rugby"

====
